---- MODULE Spec2Model ----
(***************************************************************************)
(* Model of the AI assistant core of wavelength-arch-decoder:              *)
(*   - RefactoringAnalyzer  (src/ai-assistant/src/refactoring_analyzer.py) *)
(*   - ContextBuilder       (src/ai-assistant/src/context_builder.py)      *)
(*   - QueryIntent          (src/ai-assistant/src/query_parser.py)         *)
(* Every remote fetch of ArchitectureDecoderClient either returns the      *)
(* upstream data or raises (raise_for_status / transport error); the model *)
(* chooses the outcome of each fetch nondeterministically.                 *)
(***************************************************************************)
EXTENDS Integers, Sequences, FiniteSets, TLC

VARIABLES
    \* ---- upstream data served by ArchitectureDecoderClient ----
    calls,          \* get_code_calls: the list of call edges
    rels,           \* get_code_relationships: element id -> list of relationships
    \* ---- RefactoringAnalyzer.analyze ----
    targets,        \* target_elements
    apc,            \* position inside analyze()
    ti,             \* index of the target of the for loop
    relationships,  \* local of analyze(): relationships of the current target
    callers,        \* local of analyze(): callers of the current target
    callees,        \* local of analyze(): callees of the current target
    chains,         \* local of _build_call_chains
    ci,             \* index of the caller of the for loop of _build_call_chains
    cur,            \* element_id argument of the running _traverse_up
    path,           \* path argument of the running _traverse_up
    impact,         \* the impact report under construction
    failures,       \* number of fetches that have raised so far
    relFailed,      \* history: target indices whose relationship fetch raised
    callsFailed,    \* history: target indices whose direct-caller fetch raised
    snapshot,       \* history: the edge list served to the last _find_callers
                    \* that analyze() called for a target
    \* ---- ContextBuilder.build ----
    outage,         \* the endpoints whose fetch raises during this request
    intent,         \* the intent dict: intent, topics, entities
    max_results,    \* argument of build()
    include_graph,  \* argument of build()
    bpc,            \* position inside build()
    context,        \* the context bundle under construction
    result,         \* what the strategy called last returned
    \* ---- callers of the strategies and of build() ----
    method,         \* the strategy method called on its own
    callNo,         \* which of two successive build() calls is running
    first,          \* the bundle the first of the two calls returned
    \* ---- QueryParser.parse ----
    query,          \* argument of parse()
    ppc,            \* position inside parse()
    parsed          \* the dict parse() returns

avars == <<calls, rels, targets, apc, ti, relationships, callers, callees,
           chains, ci, cur, path, impact, failures, relFailed,
           callsFailed, snapshot>>

bvars == <<outage, intent, max_results, include_graph, bpc, context, result>>

cvars == <<method, callNo, first>>

qvars == <<query, ppc, parsed>>

vars == <<avars, bvars, cvars, qvars>>

-----------------------------------------------------------------------------
(* Bounds of the model *)

MaxEdges == 2
MaxTargets == 2
\* number of fetches that may fail during one request
MaxFailures == 2
MaxAffected == 12
MaxResults == 9
\* number of endpoints that may be down during one request
MaxOutage == 2
MaxChains == 2

(* Python's None: the value of dict.get for an absent key *)
None == "None"

Ids == {"a", "b"}

-----------------------------------------------------------------------------
(* Sequence helpers *)

Min(x, y) == IF x < y THEN x ELSE y

\* Python slice s[:n]
Take(s, n) == SubSeq(s, 1, Min(n, Len(s)))

SeqsUpTo(S, n) == UNION {[1..k -> S] : k \in 0..n}

-----------------------------------------------------------------------------
(* Upstream records *)

\* A call edge as /code/calls returns it.  The id style uses the keys
\* source_id / target_id, the element style source_element_id /
\* target_element_id; an absent key reads as None.
MkEdge(s, t, style) ==
    [source_id         |-> IF style = "id" THEN s ELSE None,
     source_element_id |-> IF style = "id" THEN None ELSE s,
     source_name       |-> IF s = None THEN None ELSE "fn_" \o s,
     source_file_path  |-> IF s = None THEN None ELSE s \o ".py",
     target_id         |-> IF style = "id" THEN t ELSE None,
     target_element_id |-> IF style = "id" THEN None ELSE t]

EdgeUniverse == {MkEdge(s, t, "id") : s \in Ids \cup {None}, t \in Ids}

\* n further edges, from n distinct callers x1..xn to element "a"
FanCaller(i) ==
    CHOOSE x \in {"x1", "x2", "x3", "x4", "x5", "x6", "x7", "x8", "x9", "x10",
                  "x11", "x12", "x13", "x14"} : x = "x" \o ToString(i)

Fan(n) == [i \in 1..n |-> MkEdge(FanCaller(i), "a", "id")]

\* fan sizes: none, one more than the callers[:5] slice of
\* _build_call_chains, one more than the threshold 10 of _assess_risk
FanSizes == {0, 6, 11}

\* a relationship record of /code/relationships
MkRel(rtype, ttype, t) ==
    [relationship_type |-> rtype, target_type |-> ttype,
     target_id |-> t, target_name |-> "fn_" \o t]

\* what get_code_relationships serves for each element
UpstreamRels ==
    [x \in Ids |-> IF x = "a"
                   THEN <<MkRel("calls", "code_element", "b"),
                          MkRel("uses", "service", "b")>>
                   ELSE <<>>]

\* Python's `x or y` on values that are None or non-empty strings
Or(x, y) == IF x # None THEN x ELSE y

-----------------------------------------------------------------------------
(* RefactoringAnalyzer: pure parts *)

\* variant: the filter compares the caller side of the edge
IsCallOfSource(call, element_id) ==
    call.source_id = element_id \/ call.source_element_id = element_id

\* the test of the filter loop of _find_callers
IsCallOf(call, element_id) ==
    call.target_id = element_id \/ call.target_element_id = element_id

\* the projection appended by _find_callers
CallerOf(call) ==
    [id           |-> Or(call.source_id, call.source_element_id),
     name         |-> call.source_name,
     file_path    |-> call.source_file_path,
     relationship |-> "calls",
     risk         |-> "high"]

RECURSIVE FindCallers(_, _)
\* _find_callers once get_code_calls has returned edge list cs: the filter
\* loop appends the projection of every matching edge, in list order
FindCallers(cs, element_id) ==
    IF cs = <<>> THEN <<>>
    ELSE (IF IsCallOf(Head(cs), element_id) THEN <<CallerOf(Head(cs))>> ELSE <<>>)
         \o FindCallers(Tail(cs), element_id)

IsCallee(rel) ==
    rel.relationship_type = "calls" \/ rel.target_type = "code_element"

CalleeOf(rel) ==
    [id |-> rel.target_id, name |-> rel.target_name,
     file_path |-> None, relationship |-> "called_by", risk |-> None]

RECURSIVE FindCallees(_)
\* _find_callees
FindCallees(rs) ==
    IF rs = <<>> THEN <<>>
    ELSE (IF IsCallee(Head(rs)) THEN <<CalleeOf(Head(rs))>> ELSE <<>>)
         \o FindCallees(Tail(rs))

\* the depth test at the head of _traverse_up
DepthLimitReached(p) == Len(p) > 5

\* variant: the recursive call is handed the unextended path
ExtendPathDropped(p, next_caller) == p

\* the path handed to the recursive call of _traverse_up
ExtendPath(p, next_caller) == p \o <<next_caller.name>>

\* variant: a chain is started for every caller
ChainStartsAll(cs) == cs

\* callers[:5] of _build_call_chains
ChainStarts(cs) == Take(cs, 5)

RECURSIVE MaxOf(_)
MaxOf(s) == IF s = <<>> THEN 0
            ELSE LET m == MaxOf(Tail(s)) IN IF Head(s) > m THEN Head(s) ELSE m

\* max([c.get("depth", 0) for c in call_chains], default=0)
ChainDepth(imp) ==
    MaxOf([i \in 1..Len(imp.call_chains) |-> imp.call_chains[i].depth])

\* variant: the count thresholds are inclusive
AssessRiskInclusive(imp) ==
    LET affected_count == Len(imp.affected_functions)
        chain_depth == ChainDepth(imp)
    IN IF affected_count >= 10 \/ chain_depth > 4 THEN "high"
       ELSE IF affected_count >= 5 \/ chain_depth > 2 THEN "medium"
       ELSE "low"

\* _assess_risk
AssessRisk(imp) ==
    LET affected_count == Len(imp.affected_functions)
        chain_depth == ChainDepth(imp)
    IN IF affected_count > 10 \/ chain_depth > 4 THEN "high"
       ELSE IF affected_count > 5 \/ chain_depth > 2 THEN "medium"
       ELSE "low"

\* a recommendation string; n is the number formatted into the text
Rec(text, n) == [text |-> text, n |-> n]

RecUpdate(n) == Rec("Update N affected function(s) before refactoring", n)
RecWrapper == Rec("Consider creating a wrapper function first", 0)
RecDeprecate == Rec("Add deprecation warnings before removal", 0)
RecTests == Rec("Run full test suite after changes", 0)
RecDocs == Rec("Update documentation", 0)

\* variant: the wrapper/deprecation items are added for every risk above low
GenerateRecommendationsEager(imp) ==
    LET affected_count == Len(imp.affected_functions)
        r1 == IF affected_count > 0 THEN <<RecUpdate(affected_count)>> ELSE <<>>
        r2 == IF imp.risk_level # "low"
              THEN r1 \o <<RecWrapper, RecDeprecate>> ELSE r1
    IN r2 \o <<RecTests, RecDocs>>

\* _generate_recommendations
GenerateRecommendations(imp) ==
    LET affected_count == Len(imp.affected_functions)
        r1 == IF affected_count > 0 THEN <<RecUpdate(affected_count)>> ELSE <<>>
        r2 == IF imp.risk_level = "high"
              THEN r1 \o <<RecWrapper, RecDeprecate>> ELSE r1
    IN r2 \o <<RecTests, RecDocs>>

\* the tail of analyze(): risk, then recommendations computed from the
\* report that already carries the risk
Report(imp) ==
    LET risked == [imp EXCEPT !.risk_level = AssessRisk(imp)] IN
    [risked EXCEPT !.recommendations = GenerateRecommendations(risked)]

\* the impact dict analyze() starts from
EmptyImpact ==
    [affected_functions |-> <<>>, affected_services |-> <<>>,
     affected_dependencies |-> <<>>, call_chains |-> <<>>,
     risk_level |-> "low", recommendations |-> <<>>]

-----------------------------------------------------------------------------
(* Strings: Python's str.lower() and the substring test `x in y` *)

\* the lowercase letter of every uppercase letter
LowerOf ==
    [A |-> "a", B |-> "b", C |-> "c", D |-> "d", E |-> "e", F |-> "f",
     G |-> "g", H |-> "h", I |-> "i", J |-> "j", K |-> "k", L |-> "l",
     M |-> "m", N |-> "n", O |-> "o", P |-> "p", Q |-> "q", R |-> "r",
     S |-> "s", T |-> "t", U |-> "u", V |-> "v", W |-> "w", X |-> "x",
     Y |-> "y", Z |-> "z"]

LowerChar(c) == IF c \in DOMAIN LowerOf THEN LowerOf[c] ELSE c

RECURSIVE Lower(_)
\* str.lower()
Lower(str) ==
    IF Len(str) = 0 THEN ""
    ELSE LowerChar(SubSeq(str, 1, 1)) \o Lower(SubSeq(str, 2, Len(str)))

\* sub in str
Contains(sub, str) ==
    \E i \in 1..(Len(str) - Len(sub) + 1) : SubSeq(str, i, i + Len(sub) - 1) = sub

-----------------------------------------------------------------------------
(* QueryIntent and the upstream dataset of ContextBuilder *)

\* the values of the members the enumeration QueryIntent declares
QueryIntent == {"find_functions", "list_services", "find_dependencies",
                "refactoring_impact", "tool_discovery", "general"}

\* the members build() names in its if/elif chain, in order, each with the
\* strategy its branch calls
DispatchChain ==
    <<[member |-> "find_functions",     strategy |-> "function"],
      [member |-> "list_services",      strategy |-> "service"],
      [member |-> "find_dependencies",  strategy |-> "dependency"],
      [member |-> "tool_discovery",     strategy |-> "tool"],
      [member |-> "find_tests",         strategy |-> "test"],
      [member |-> "find_documentation", strategy |-> "documentation"]>>

\* the endpoints of ArchitectureDecoderClient that build() uses;
\* get_code_relationships is one endpoint per element id
RelEndpoint(id) == "relationships_" \o id

Endpoints ==
    {"repository", "code_elements", "services", "dependencies", "tools",
     "tests", "documentation", "graph",
     RelEndpoint("e1"), RelEndpoint("e3"), RelEndpoint("e5")}

RepositoryId == "r1"

Element(id, name, etype, fp) ==
    [id |-> id, name |-> name, element_type |-> etype, file_path |-> fp,
     signature |-> name \o "()", line |-> 1, language |-> "python"]

\* the repository the upstream service holds
Upstream ==
    [repository |-> [id |-> RepositoryId, name |-> "demo"],
     code_elements |->
        <<Element("e1", "AuthLogin", "function", "src/auth.py"),
          Element("e2", "authHelper", "Function", "lib/node_modules/auth/x.js"),
          Element("e3", "dbQuery", "function", "src/db.py"),
          Element("e4", "AuthModel", "class", "src/models.py"),
          Element("e5", "loginUser", "function", "src/users.py"),
          Element("e6", "authToken", "function", "Lib/Site-Packages/auth/t.py")>>,
     relationships |->
        [id \in {"e1", "e2", "e3", "e4", "e5", "e6"} |->
            CASE id = "e1" -> <<[target_type |-> "service", target_name |-> "firebase"],
                                [target_type |-> "dependency", target_name |-> "requests"],
                                [target_type |-> "code_element", target_name |-> "dbQuery"]>>
              [] id = "e3" -> <<[target_type |-> "service", target_name |-> "firebase"]>>
              [] id = "e5" -> <<[target_type |-> "dependency", target_name |-> "bcrypt"]>>
              [] OTHER -> <<>>],
     services |->
        <<[id |-> "s1", name |-> "Stripe", provider |-> "stripe",
           service_type |-> "payment", file_path |-> "src/pay.py"],
          [id |-> "s2", name |-> "Firebase Auth", provider |-> "google",
           service_type |-> "auth", file_path |-> "src/auth.py"],
          [id |-> "s3", name |-> "Login API", provider |-> "internal",
           service_type |-> "api", file_path |-> "src/login.py"]>>,
     dependencies |->
        <<[id |-> "d1", name |-> "requests", version |-> "2.0", package_manager |-> "pip"],
          [id |-> "d2", name |-> "PyAuth", version |-> "1.0", package_manager |-> "pip"],
          [id |-> "d3", name |-> "flask-login", version |-> "0.6", package_manager |-> "pip"]>>,
     tools |->
        <<[id |-> "t1", name |-> "pytest", tool_type |-> "test", config_file |-> "pytest.ini"],
          [id |-> "t2", name |-> "eslint", tool_type |-> "linter", config_file |-> ".eslintrc"]>>,
     tests |->
        <<[id |-> "u1", name |-> "test_db", test_framework |-> "pytest",
           test_type |-> "unit", file_path |-> "tests/test_db.py",
           line_number |-> 3, language |-> "python", suite_name |-> "db",
           signature |-> "test_db()"],
          [id |-> "u2", name |-> "test_auth_login", test_framework |-> "pytest",
           test_type |-> "unit", file_path |-> "tests/test_auth.py",
           line_number |-> 7, language |-> "python", suite_name |-> "auth",
           signature |-> "test_auth_login()"]>>,
     docs |->
        <<[id |-> "m1", file_name |-> "README.md", file_path |-> "README.md",
           doc_type |-> "readme", title |-> "Demo", description |-> "overview",
           word_count |-> 2, line_count |-> 1, has_code_examples |-> FALSE,
           has_api_references |-> FALSE, has_diagrams |-> FALSE,
           content_preview |-> "Demo project"],
          [id |-> "m2", file_name |-> "AUTH.md", file_path |-> "docs/AUTH.md",
           doc_type |-> "guide", title |-> "Login guide",
           description |-> "how to log in",
           word_count |-> 1, line_count |-> 1, has_code_examples |-> TRUE,
           has_api_references |-> FALSE, has_diagrams |-> FALSE,
           content_preview |-> "Authentication"]>>,
     graph |-> "graph_r1"]

\* the value of context["graph"] when get_graph raised: {}
EmptyGraph == "empty_graph"

\* a fetch: the upstream value, or an exception when the endpoint is down
Raises(out, endpoint) == endpoint \in out

-----------------------------------------------------------------------------
(* ContextBuilder: the strategies *)

\* {"sources": [], "related": {}}
EmptyResult == [sources |-> <<>>,
                related |-> [keys |-> {}, services |-> {}, dependencies |-> {}]]

NoRelated == EmptyResult.related

\* variant: else in place of the elif, every other target counts as a
\* dependency
GetRelatedEntitiesElse(sources) ==
    LET relsOf == UNION {{sources[i].relationships[k] :
                              k \in 1..Len(sources[i].relationships)} :
                         i \in 1..Len(sources)}
    IN [keys |-> {"services", "dependencies"},
        services |-> {r.target_name : r \in {x \in relsOf : x.target_type = "service"}},
        dependencies |->
            {r.target_name : r \in {x \in relsOf : x.target_type # "service"}}]

\* variant: only the first listed name is kept
ListOfSetFirst(S) ==
    {Take(q, 1) : q \in {p \in [1..Cardinality(S) -> S] :
                            \A i, j \in 1..Cardinality(S) : i # j => p[i] # p[j]}}

\* list(a_set): the elements of the set, each once, in an order the language
\* does not specify
ListOfSet(S) ==
    {q \in [1..Cardinality(S) -> S] :
        \A i, j \in 1..Cardinality(S) : i # j => q[i] # q[j]}

\* the values a strategy may return: the two sets of related names listed in
\* any order
StrategyOutcomes(r) ==
    {[sources |-> r.sources,
      related |-> [keys |-> r.related.keys, services |-> sv, dependencies |-> dp]] :
        sv \in ListOfSet(r.related.services),
        dp \in ListOfSet(r.related.dependencies)}

\* _get_related_entities: the two sets it collects, related_services and
\* related_dependencies
GetRelatedEntities(sources) ==
    LET relsOf == UNION {{sources[i].relationships[k] :
                              k \in 1..Len(sources[i].relationships)} :
                         i \in 1..Len(sources)}
    IN [keys |-> {"services", "dependencies"},
        services |-> {r.target_name : r \in {x \in relsOf : x.target_type = "service"}},
        dependencies |->
            {r.target_name : r \in {x \in relsOf : x.target_type = "dependency"}}]

FunctionCommonWords ==
    {"functions", "function", "available", "list", "show", "what", "which",
     "are", "is"}

\* variant: node_modules/ is not among the markers
DependencyDirsPython == <<"venv/", ".venv/", "__pycache__/", "site-packages/">>

DependencyDirs == <<"venv/", "node_modules/", ".venv/", "__pycache__/", "site-packages/">>

\* variant: an entity match keeps an element also when topics are present
FunctionMatchesEither(element, topics, filtered_entities) ==
    LET file_path_lower == Lower(element.file_path)
        name == Lower(element.name)
        TopicHit(topic) == Contains(Lower(topic), name)
                           \/ Contains(Lower(topic), file_path_lower)
        EntityHit(entity) == Contains(Lower(entity), name)
        DepDirHit(dep_dir) == Contains(dep_dir, file_path_lower)
    IN /\ Lower(element.element_type) = "function"
       /\ element.file_path # ""
       /\ ~(\E k \in 1..Len(DependencyDirs) : DepDirHit(DependencyDirs[k]))
       /\ IF topics # <<>> \/ filtered_entities # <<>>
          THEN \/ \E k \in 1..Len(topics) : TopicHit(topics[k])
               \/ \E k \in 1..Len(filtered_entities) :
                     EntityHit(filtered_entities[k])
          ELSE TRUE

\* the body of the filter loop of _build_function_context: is the element kept
FunctionMatches(element, topics, filtered_entities) ==
    LET file_path_lower == Lower(element.file_path)
        name == Lower(element.name)
        TopicHit(topic) == Contains(Lower(topic), name)
                           \/ Contains(Lower(topic), file_path_lower)
        EntityHit(entity) == Contains(Lower(entity), name)
        DepDirHit(dep_dir) == Contains(dep_dir, file_path_lower)
    IN /\ Lower(element.element_type) = "function"
       /\ element.file_path # ""
       /\ ~(\E k \in 1..Len(DependencyDirs) : DepDirHit(DependencyDirs[k]))
       /\ IF topics # <<>> THEN (\E k \in 1..Len(topics) : TopicHit(topics[k]))
          ELSE IF filtered_entities # <<>>
               THEN (\E k \in 1..Len(filtered_entities) :
                        EntityHit(filtered_entities[k]))
          ELSE TRUE

\* variant: one failing relationship fetch leaves every item without
\* relationships
ElementRelationshipsShared(u, out, id) ==
    IF \E x \in DOMAIN u.relationships : Raises(out, RelEndpoint(x)) THEN <<>>
    ELSE u.relationships[id]

\* lines 130-135: the relationships of one element, [] when the fetch raises
ElementRelationships(u, out, id) ==
    IF Raises(out, RelEndpoint(id)) THEN <<>> ELSE u.relationships[id]

\* _build_function_context
BuildFunctionContext(u, out, topics, entities, max_results_) ==
    IF Raises(out, "code_elements") THEN EmptyResult
    ELSE
      LET NotCommon(e) == Lower(e) \notin FunctionCommonWords
          filtered_entities == SelectSeq(entities, NotCommon)
          Keep(element) == FunctionMatches(element, topics, filtered_entities)
          filtered == SelectSeq(u.code_elements, Keep)
          chosen == Take(filtered, max_results_)
          sources ==
            [i \in 1..Len(chosen) |->
               [type |-> "code_element",
                id |-> chosen[i].id,
                name |-> chosen[i].name,
                signature |-> chosen[i].signature,
                file_path |-> chosen[i].file_path,
                line |-> chosen[i].line,
                language |-> chosen[i].language,
                relationships |-> ElementRelationships(u, out, chosen[i].id)]]
      IN [sources |-> sources, related |-> GetRelatedEntities(sources)]

\* _build_service_context
BuildServiceContext(u, out, topics, max_results_) ==
    IF Raises(out, "services") THEN EmptyResult
    ELSE
      LET Hit(sv) ==
              LET TopicHit(topic) == Contains(Lower(topic), Lower(sv.name))
                                     \/ Contains(Lower(topic), Lower(sv.provider))
              IN (\E k \in 1..Len(topics) : TopicHit(topics[k]))
          filtered == IF topics # <<>> THEN SelectSeq(u.services, Hit) ELSE u.services
          chosen == Take(filtered, max_results_)
      IN [sources |-> [i \in 1..Len(chosen) |->
                         [type |-> "service", id |-> chosen[i].id,
                          name |-> chosen[i].name, provider |-> chosen[i].provider,
                          service_type |-> chosen[i].service_type,
                          file_path |-> chosen[i].file_path]],
          related |-> NoRelated]

\* variant: the filter runs also without topics, and then keeps nothing
BuildDependencyContextStrict(u, out, topics, max_results_) ==
    IF Raises(out, "dependencies") THEN EmptyResult
    ELSE
      LET Hit(d) ==
              LET TopicHit(topic) == Contains(Lower(topic), Lower(d.name))
              IN (\E k \in 1..Len(topics) : TopicHit(topics[k]))
          chosen == Take(SelectSeq(u.dependencies, Hit), max_results_)
      IN [sources |-> [i \in 1..Len(chosen) |->
                         [type |-> "dependency", id |-> chosen[i].id,
                          name |-> chosen[i].name, version |-> chosen[i].version,
                          package_manager |-> chosen[i].package_manager]],
          related |-> NoRelated]

\* _build_dependency_context
BuildDependencyContext(u, out, topics, max_results_) ==
    IF Raises(out, "dependencies") THEN EmptyResult
    ELSE
      LET Hit(d) ==
              LET TopicHit(topic) == Contains(Lower(topic), Lower(d.name))
              IN (\E k \in 1..Len(topics) : TopicHit(topics[k]))
          filtered == IF topics # <<>> THEN SelectSeq(u.dependencies, Hit)
                      ELSE u.dependencies
          chosen == Take(filtered, max_results_)
      IN [sources |-> [i \in 1..Len(chosen) |->
                         [type |-> "dependency", id |-> chosen[i].id,
                          name |-> chosen[i].name, version |-> chosen[i].version,
                          package_manager |-> chosen[i].package_manager]],
          related |-> NoRelated]

\* _build_tool_context
BuildToolContext(u, out, max_results_) ==
    IF Raises(out, "tools") THEN EmptyResult
    ELSE
      LET chosen == Take(u.tools, max_results_)
      IN [sources |-> [i \in 1..Len(chosen) |->
                         [type |-> "tool", id |-> chosen[i].id,
                          name |-> chosen[i].name, tool_type |-> chosen[i].tool_type,
                          config_file |-> chosen[i].config_file]],
          related |-> NoRelated]

\* _build_test_context
BuildTestContext(u, out, topics, max_results_) ==
    IF Raises(out, "tests") THEN EmptyResult
    ELSE
      LET Hit(t) ==
              LET TopicHit(topic) == Contains(Lower(topic), Lower(t.name))
                                     \/ Contains(Lower(topic), Lower(t.test_framework))
                                     \/ Contains(Lower(topic), Lower(t.file_path))
              IN (\E k \in 1..Len(topics) : TopicHit(topics[k]))
          filtered == IF topics # <<>> THEN SelectSeq(u.tests, Hit) ELSE u.tests
          chosen == Take(filtered, max_results_)
      IN [sources |-> [i \in 1..Len(chosen) |->
                         [type |-> "test", id |-> chosen[i].id,
                          name |-> chosen[i].name,
                          test_framework |-> chosen[i].test_framework,
                          test_type |-> chosen[i].test_type,
                          file_path |-> chosen[i].file_path,
                          line_number |-> chosen[i].line_number,
                          language |-> chosen[i].language,
                          suite_name |-> chosen[i].suite_name,
                          signature |-> chosen[i].signature]],
          related |-> NoRelated]

\* content_preview[:500]
PreviewLimit == 500

\* _build_documentation_context
BuildDocumentationContext(u, out, topics, max_results_) ==
    IF Raises(out, "documentation") THEN EmptyResult
    ELSE
      LET Hit(d) ==
              LET TopicHit(topic) == Contains(Lower(topic), Lower(d.file_name))
                                     \/ Contains(Lower(topic), Lower(d.title))
                                     \/ Contains(Lower(topic), Lower(d.description))
                                     \/ Contains(Lower(topic), Lower(d.file_path))
              IN (\E k \in 1..Len(topics) : TopicHit(topics[k]))
          filtered == IF topics # <<>> THEN SelectSeq(u.docs, Hit) ELSE u.docs
          chosen == Take(filtered, max_results_)
      IN [sources |-> [i \in 1..Len(chosen) |->
                         [type |-> "documentation", id |-> chosen[i].id,
                          file_name |-> chosen[i].file_name,
                          file_path |-> chosen[i].file_path,
                          doc_type |-> chosen[i].doc_type,
                          title |-> chosen[i].title,
                          description |-> chosen[i].description,
                          word_count |-> chosen[i].word_count,
                          line_count |-> chosen[i].line_count,
                          has_code_examples |-> chosen[i].has_code_examples,
                          has_api_references |-> chosen[i].has_api_references,
                          has_diagrams |-> chosen[i].has_diagrams,
                          content_preview |->
                             SubSeq(chosen[i].content_preview, 1,
                                    Min(PreviewLimit, Len(chosen[i].content_preview)))]],
          related |-> NoRelated]

\* variant: the fetches of tests and documentation sit in the outer try too
GeneralFetchAbortsOnAny(out) ==
    out \cap {"code_elements", "services", "dependencies", "tests",
              "documentation"} # {}

\* the outer try of _build_general_context (lines 353-368): does a fetch raise
\* into its except clause
GeneralFetchAborts(out) ==
    Raises(out, "code_elements") \/ Raises(out, "services")
    \/ Raises(out, "dependencies")

\* variant: every domain is sliced by max_results itself
CoreShareWhole(max_results_) == max_results_

\* variant: tests and documentation get a third like the other domains
SideShareThird(max_results_) == max_results_ \div 3

\* the slice of code elements, services and dependencies: [:max_results // 3]
CoreShare(max_results_) == max_results_ \div 3

\* the slice of tests and documentation: [:max_results // 5]
SideShare(max_results_) == max_results_ \div 5

\* variant: the filter loop runs over the whole upstream list
GeneralCandidatesAll(list, n) == list

\* the list a filter loop of _build_general_context runs over: list[:n]
GeneralCandidates(list, n) == Take(list, n)

\* _build_general_context
BuildGeneralContext(u, out, topics, entities, max_results_) ==
    IF GeneralFetchAborts(out)
    THEN EmptyResult
    ELSE
      LET tests == IF Raises(out, "tests") THEN <<>> ELSE u.tests
          docs == IF Raises(out, "documentation") THEN <<>> ELSE u.docs
          filtering == topics # <<>> \/ entities # <<>>
          NameHit(name) ==
              LET TopicHit(topic) == Contains(Lower(topic), name)
                  EntityHit(entity) == Contains(Lower(entity), name)
              IN \/ \E k \in 1..Len(topics) : TopicHit(topics[k])
                 \/ \E k \in 1..Len(entities) : EntityHit(entities[k])
          KeepElement(element) == filtering => NameHit(Lower(element.name))
          KeepTest(test) == filtering => NameHit(Lower(test.name))
          KeepDoc(doc) ==
              LET name == Lower(doc.file_name)
                  title == IF doc.title # "" THEN Lower(doc.title) ELSE ""
                  TopicHit(topic) == Contains(Lower(topic), name)
                                     \/ Contains(Lower(topic), title)
                  EntityHit(entity) == Contains(Lower(entity), name)
                                       \/ Contains(Lower(entity), title)
              IN filtering =>
                    \/ \E k \in 1..Len(topics) : TopicHit(topics[k])
                    \/ \E k \in 1..Len(entities) : EntityHit(entities[k])
          elements == SelectSeq(GeneralCandidates(u.code_elements,
                                                  CoreShare(max_results_)),
                               KeepElement)
          services == Take(u.services, CoreShare(max_results_))
          dependencies == Take(u.dependencies, CoreShare(max_results_))
          someTests == SelectSeq(GeneralCandidates(tests, SideShare(max_results_)),
                                KeepTest)
          someDocs == SelectSeq(GeneralCandidates(docs, SideShare(max_results_)),
                               KeepDoc)
      IN [sources |->
            [i \in 1..Len(elements) |->
               [type |-> "code_element", id |-> elements[i].id,
                name |-> elements[i].name, file_path |-> elements[i].file_path]]
            \o [i \in 1..Len(services) |->
               [type |-> "service", id |-> services[i].id,
                name |-> services[i].name, provider |-> services[i].provider]]
            \o [i \in 1..Len(dependencies) |->
               [type |-> "dependency", id |-> dependencies[i].id,
                name |-> dependencies[i].name, version |-> dependencies[i].version]]
            \o [i \in 1..Len(someTests) |->
               [type |-> "test", id |-> someTests[i].id, name |-> someTests[i].name,
                test_framework |-> someTests[i].test_framework,
                file_path |-> someTests[i].file_path]]
            \o [i \in 1..Len(someDocs) |->
               [type |-> "documentation", id |-> someDocs[i].id,
                file_name |-> someDocs[i].file_name,
                file_path |-> someDocs[i].file_path, title |-> someDocs[i].title]],
          related |-> NoRelated]

-----------------------------------------------------------------------------
(* ContextBuilder.build as a state machine *)

\* the context dict build() starts from; "repository" and "graph" are absent
EmptyContext ==
    [repository_id |-> RepositoryId,
     sources |-> <<>>,
     related |-> [keys |-> {}, services |-> <<>>, dependencies |-> <<>>],
     repository |-> [id |-> None, name |-> None],
     graph |-> None]

\* the dict parse() starts from: intent GENERAL, no entities, no topics
EmptyParse ==
    [intent |-> "general", entities |-> <<>>, topics |-> <<>>, original_query |-> ""]

InputTopics == {<<>>, <<"auth">>}
InputEntities == {<<>>, <<"login">>, <<"list">>, <<"db">>}

OutageSets(E) == {o \in SUBSET E : Cardinality(o) <= MaxOutage}

\* analyze() is not running
IdleA ==
    /\ calls = <<>> /\ rels = UpstreamRels /\ targets = <<>> /\ apc = "idle"
    /\ ti = 1 /\ relationships = <<>> /\ callers = <<>> /\ callees = <<>>
    /\ chains = <<>> /\ ci = 1 /\ cur = None /\ path = <<>>
    /\ impact = EmptyImpact /\ failures = 0 /\ relFailed = {} /\ callsFailed = {}
    /\ snapshot = <<>>

\* build() is not running
IdleB ==
    /\ outage = {} /\ intent = [intent |-> "general", topics |-> <<>>, entities |-> <<>>]
    /\ max_results = 0 /\ include_graph = FALSE /\ bpc = "idle"
    /\ context = EmptyContext /\ result = EmptyResult

\* no strategy is called on its own and no second build() call is pending
IdleC == method = None /\ callNo = 1 /\ first = EmptyContext

\* parse() is not running
IdleQ == query = "" /\ ppc = "idle" /\ parsed = EmptyParse

InitB ==
    /\ IdleA /\ IdleC /\ IdleQ
    /\ outage \in OutageSets(Endpoints)
    /\ intent \in [intent : QueryIntent, topics : InputTopics, entities : InputEntities]
    /\ max_results \in 0..MaxResults
    /\ include_graph \in BOOLEAN
    /\ bpc = "repository"
    /\ context = EmptyContext
    /\ result = EmptyResult

\* the placeholder of the except clause of the repository fetch
RepositoryPlaceholder(repository_id) == [id |-> repository_id, name |-> "Unknown"]

\* lines 29-35: get_repository, or the placeholder when it raises
FetchRepository ==
    /\ UNCHANGED <<avars, cvars, qvars>>
    /\ bpc = "repository"
    /\ context' = [context EXCEPT !.repository =
                      IF Raises(outage, "repository")
                      THEN RepositoryPlaceholder(context.repository_id)
                      ELSE Upstream.repository]
    /\ bpc' = "dispatch"
    /\ UNCHANGED <<outage, intent, max_results, include_graph, result>>

RECURSIVE SelectStrategy(_, _)
\* the if/elif chain of build() from its i-th test on: naming a member the
\* enumeration does not declare raises AttributeError; the else branch is the
\* general strategy
SelectStrategy(intent_type, i) ==
    IF i > Len(DispatchChain) THEN "general"
    ELSE IF DispatchChain[i].member \notin QueryIntent THEN "AttributeError"
    ELSE IF intent_type = DispatchChain[i].member THEN DispatchChain[i].strategy
    ELSE SelectStrategy(intent_type, i + 1)

\* the strategy call of the taken branch
RunStrategy(strategy, u, out, in, max_results_) ==
    CASE strategy = "function" ->
            BuildFunctionContext(u, out, in.topics, in.entities, max_results_)
      [] strategy = "service" -> BuildServiceContext(u, out, in.topics, max_results_)
      [] strategy = "dependency" -> BuildDependencyContext(u, out, in.topics, max_results_)
      [] strategy = "tool" -> BuildToolContext(u, out, max_results_)
      [] strategy = "test" -> BuildTestContext(u, out, in.topics, max_results_)
      [] strategy = "documentation" ->
            BuildDocumentationContext(u, out, in.topics, max_results_)
      [] OTHER -> BuildGeneralContext(u, out, in.topics, in.entities, max_results_)

\* lines 37-66: the dispatch; context.update(...) replaces sources and related
Dispatch ==
    /\ UNCHANGED <<avars, cvars, qvars>>
    /\ bpc = "dispatch"
    /\ LET strategy == SelectStrategy(intent.intent, 1) IN
       IF strategy = "AttributeError"
       THEN /\ bpc' = "raised"
            /\ UNCHANGED <<context, result>>
       ELSE \E r \in StrategyOutcomes(RunStrategy(strategy, Upstream, outage, intent,
                                                  max_results)) :
            /\ result' = r
            /\ context' = [context EXCEPT !.sources = r.sources, !.related = r.related]
            /\ bpc' = "graph"
    /\ UNCHANGED <<outage, intent, max_results, include_graph>>

\* variant: a failing graph fetch leaves the bundle without the graph key
FetchGraphAbsent(u, out) == IF Raises(out, "graph") THEN None ELSE u.graph

\* lines 70-74: get_graph, or {} when it raises
FetchGraph(u, out) == IF Raises(out, "graph") THEN EmptyGraph ELSE u.graph

\* lines 68-76: the optional graph fetch, then return context
IncludeGraph ==
    /\ UNCHANGED <<avars, cvars, qvars>>
    /\ bpc = "graph"
    /\ context' = IF include_graph
                  THEN [context EXCEPT !.graph = FetchGraph(Upstream, outage)]
                  ELSE context
    /\ bpc' = "done"
    /\ UNCHANGED <<outage, intent, max_results, include_graph, result>>

NextB == FetchRepository \/ Dispatch \/ IncludeGraph

SpecBuild == InitB /\ [][NextB]_vars

-----------------------------------------------------------------------------
(* build() called twice with the same arguments and the same fetch outcomes *)

\* the first call has returned its bundle; the second starts from a fresh
\* context dict
SecondCall ==
    /\ UNCHANGED <<avars, qvars>>
    /\ bpc = "done"
    /\ callNo = 1
    /\ first' = context
    /\ callNo' = 2
    /\ context' = EmptyContext
    /\ result' = EmptyResult
    /\ bpc' = "repository"
    /\ UNCHANGED <<outage, intent, max_results, include_graph, method>>

NextT == FetchRepository \/ Dispatch \/ IncludeGraph \/ SecondCall

SpecTwice == InitB /\ [][NextT]_vars

-----------------------------------------------------------------------------
(* _build_general_context called on its own *)

GeneralEndpoints == {"code_elements", "services", "dependencies", "tests",
                     "documentation"}

InitG ==
    /\ IdleA /\ IdleC /\ IdleQ
    /\ outage \in OutageSets(GeneralEndpoints)
    /\ intent \in [intent : {"general"}, topics : InputTopics, entities : InputEntities]
    /\ max_results \in 0..MaxResults
    /\ include_graph = FALSE
    /\ bpc = "general"
    /\ context = EmptyContext
    /\ result = EmptyResult

CallGeneral ==
    /\ UNCHANGED <<avars, cvars, qvars>>
    /\ bpc = "general"
    /\ result' = BuildGeneralContext(Upstream, outage, intent.topics, intent.entities,
                                     max_results)
    /\ bpc' = "returned"
    /\ UNCHANGED <<outage, intent, max_results, include_graph, context>>

NextG == CallGeneral

SpecGeneral == InitG /\ [][NextG]_vars

-----------------------------------------------------------------------------
(* each strategy method of ContextBuilder called on its own *)

Strategies == {"function", "service", "dependency", "tool", "test",
               "documentation", "general"}

StrategyEndpoints == Endpoints \ {"repository", "graph"}

InitS ==
    /\ IdleA /\ IdleQ
    /\ method \in Strategies
    /\ callNo = 1 /\ first = EmptyContext
    /\ outage \in OutageSets(StrategyEndpoints)
    /\ intent \in [intent : {"general"}, topics : InputTopics, entities : InputEntities]
    /\ max_results \in 0..MaxResults
    /\ include_graph = FALSE
    /\ bpc = "strategy"
    /\ context = EmptyContext
    /\ result = EmptyResult

CallStrategy ==
    /\ UNCHANGED <<avars, cvars, qvars>>
    /\ bpc = "strategy"
    /\ result' \in StrategyOutcomes(RunStrategy(method, Upstream, outage, intent,
                                                max_results))
    /\ bpc' = "returned"
    /\ UNCHANGED <<outage, intent, max_results, include_graph, context>>

NextS == CallStrategy

SpecStrategy == InitS /\ [][NextS]_vars

-----------------------------------------------------------------------------
(* QueryParser *)

\* a pattern is the list of the literal parts its ".*" separate
FindFunctionsPatterns ==
    <<<<"what functions">>, <<"show", "functions">>, <<"list", "functions">>,
      <<"functions", "available">>, <<"how", "function">>, <<"which functions">>>>

ListServicesPatterns ==
    <<<<"what services">>, <<"which services">>, <<"services", "used">>,
      <<"show", "services">>, <<"list", "services">>>>

FindDependenciesPatterns ==
    <<<<"what dependencies">>, <<"which dependencies">>, <<"dependencies", "used">>,
      <<"list", "dependencies">>>>

RefactoringImpactPatterns ==
    <<<<"what would break">>, <<"what", "impact">>, <<"refactor">>, <<"rename">>,
      <<"remove">>, <<"change">>, <<"can i", "remove">>, <<"can i", "rename">>,
      <<"safe", "remove">>>>

ToolDiscoveryPatterns ==
    <<<<"what tools">>, <<"build tools">>, <<"test", "tools">>, <<"linter">>,
      <<"which tools">>>>

\* variant: REFACTORING_IMPACT is declared first
IntentPatternsRefactoringFirst ==
    <<[intent |-> "refactoring_impact", patterns |-> RefactoringImpactPatterns],
      [intent |-> "find_functions", patterns |-> FindFunctionsPatterns],
      [intent |-> "list_services", patterns |-> ListServicesPatterns],
      [intent |-> "find_dependencies", patterns |-> FindDependenciesPatterns],
      [intent |-> "tool_discovery", patterns |-> ToolDiscoveryPatterns]>>

\* INTENT_PATTERNS in declaration order
IntentPatterns ==
    <<[intent |-> "find_functions", patterns |-> FindFunctionsPatterns],
      [intent |-> "list_services", patterns |-> ListServicesPatterns],
      [intent |-> "find_dependencies", patterns |-> FindDependenciesPatterns],
      [intent |-> "refactoring_impact", patterns |-> RefactoringImpactPatterns],
      [intent |-> "tool_discovery", patterns |-> ToolDiscoveryPatterns]>>

\* str[i:].startswith(sub), i counted from 1
OccursAt(sub, str, i) ==
    /\ i + Len(sub) - 1 <= Len(str)
    /\ SubSeq(str, i, i + Len(sub) - 1) = sub

\* re.search(pattern, str): the parts occur in order; ".*" matches any run of
\* characters other than the newline
PatternMatches(parts, str) ==
    IF Len(parts) = 1 THEN Contains(parts[1], str)
    ELSE \E i \in 1..Len(str) :
            /\ OccursAt(parts[1], str, i)
            /\ \E j \in (i + Len(parts[1]))..Len(str) :
                  /\ OccursAt(parts[2], str, j)
                  /\ \A k \in (i + Len(parts[1]))..(j - 1) : SubSeq(str, k, k) # "\n"

\* the inner loop of parse(): some pattern of the entry matches
EntryMatches(entry, query_lower) ==
    \E k \in 1..Len(entry.patterns) : PatternMatches(entry.patterns[k], query_lower)

\* variant: the intent when no pattern matches is the first of the table
DefaultIntentFirst == "find_functions"

\* line 63: intent = QueryIntent.GENERAL
DefaultIntent == "general"

RECURSIVE ResolveIntent(_, _)
\* lines 63-70: the entries in declaration order from the i-th on, stopping at
\* the first one with a matching pattern
ResolveIntent(query_lower, i) ==
    IF i > Len(IntentPatterns) THEN DefaultIntent
    ELSE IF EntryMatches(IntentPatterns[i], query_lower)
         THEN IntentPatterns[i].intent
    ELSE ResolveIntent(query_lower, i + 1)

LowerChars == {LowerOf[c] : c \in DOMAIN LowerOf}

\* [a-zA-Z0-9_]
WordChars ==
    LowerChars \cup DOMAIN LowerOf
    \cup {"0", "1", "2", "3", "4", "5", "6", "7", "8", "9", "_"}

IsWordChar(str, i) == SubSeq(str, i, i) \in WordChars

\* re.findall(r'\b([a-z][a-zA-Z0-9_]*)\b', query): the whole words that begin
\* with a lower-case letter
LowerWords(str) ==
    UNION {{SubSeq(str, b, e) :
                e \in {x \in b..Len(str) :
                          /\ \A k \in b..x : IsWordChar(str, k)
                          /\ (x = Len(str) \/ ~IsWordChar(str, x + 1))}} :
           b \in {x \in 1..Len(str) :
                     /\ SubSeq(str, x, x) \in LowerChars
                     /\ (x = 1 \/ ~IsWordChar(str, x - 1))}}

\* the position of the first double quote of str at or after i, 0 if none
NextQuote(str, i) ==
    LET at == {k \in i..Len(str) : SubSeq(str, k, k) = "\""}
    IN IF at = {} THEN 0 ELSE CHOOSE k \in at : \A x \in at : k <= x

RECURSIVE QuotedFrom(_, _)
\* re.findall(r'"([^"]+)"', query) from position i on: the non-empty texts
\* between successive pairs of double quotes
QuotedFrom(str, i) ==
    LET opening == NextQuote(str, i)
        closing == IF opening = 0 THEN 0 ELSE NextQuote(str, opening + 1)
    IN IF opening = 0 \/ closing = 0 THEN {}
       ELSE IF closing = opening + 1 THEN QuotedFrom(str, closing)
       ELSE {SubSeq(str, opening + 1, closing - 1)} \cup QuotedFrom(str, closing + 1)

\* common_words of _extract_entities
CommonWords ==
    {"what", "which", "show", "list", "the", "are", "is", "a", "an", "to", "for",
     "with", "from"}

\* _extract_entities before list(set(...)): the quoted texts and the words,
\* those whose lower-case form is a common word removed
ExtractEntities(str) ==
    {e \in QuotedFrom(str, 1) \cup LowerWords(str) : Lower(e) \notin CommonWords}

\* topic_keywords of _extract_topics
TopicKeywords ==
    <<"authentication", "auth", "storage", "database", "api", "firebase", "aws",
      "stripe", "payment", "email", "notification", "user", "admin", "file",
      "upload", "download", "session", "token", "security", "encryption",
      "validation">>

\* _extract_topics: the keywords found in the lower-cased query, in keyword
\* order
ExtractTopics(str) ==
    LET query_lower == Lower(str)
        Found(keyword) == Contains(keyword, query_lower)
    IN SelectSeq(TopicKeywords, Found)

\* the words the queries of the model are made of
QueryWords ==
    {"What", "functions", "show", "remove", "services", "hello", "there",
     "Authentication", "\"list\"", "\n"}

MaxWords == 3

RECURSIVE Join(_)
\* " ".join(words)
Join(words) ==
    IF Len(words) = 0 THEN ""
    ELSE IF Len(words) = 1 THEN words[1]
    ELSE words[1] \o " " \o Join(Tail(words))

\* ENTITY_TESTS of validate_entity_queries.py: the query of each entity type
\* and the intent the validation expects for it
EntityTests ==
    {[query |-> "what functions exist for this repo?",
      expected_intent |-> "find_functions"],
     [query |-> "what services exist for this repo?",
      expected_intent |-> "list_services"],
     [query |-> "what dependencies exist for this repo?",
      expected_intent |-> "find_dependencies"],
     [query |-> "what tools exist for this repo?",
      expected_intent |-> "tool_discovery"],
     [query |-> "what tests exist for this repo?",
      expected_intent |-> "find_tests"],
     [query |-> "what docs exist for this repo?",
      expected_intent |-> "find_documentation"]}

InitP ==
    /\ IdleA /\ IdleB /\ IdleC
    /\ \/ \E words \in SeqsUpTo(QueryWords, MaxWords) : query = Join(words)
       \/ \E t \in EntityTests : query = t.query
    /\ ppc = "parse"
    /\ parsed = EmptyParse

\* QueryParser.parse
Parse ==
    /\ UNCHANGED <<avars, bvars, cvars>>
    /\ ppc = "parse"
    /\ \E entities \in ListOfSet(ExtractEntities(query)) :
          parsed' = [intent |-> ResolveIntent(Lower(query), 1),
                     entities |-> entities,
                     topics |-> ExtractTopics(query),
                     original_query |-> query]
    /\ ppc' = "returned"
    /\ UNCHANGED query

NextP == Parse

SpecParse == InitP /\ [][NextP]_vars

-----------------------------------------------------------------------------
(* RefactoringAnalyzer.analyze as a state machine *)

InitA ==
    /\ IdleB /\ IdleC /\ IdleQ
    /\ \E base \in SeqsUpTo(EdgeUniverse, MaxEdges), n \in FanSizes :
          calls = base \o Fan(n)
    /\ rels = UpstreamRels
    /\ targets \in SeqsUpTo(Ids, MaxTargets)
    /\ apc = "loop"
    /\ ti = 1
    /\ relationships = <<>>
    /\ callers = <<>>
    /\ callees = <<>>
    /\ chains = <<>>
    /\ ci = 1
    /\ cur = None
    /\ path = <<>>
    /\ impact = EmptyImpact
    /\ failures = 0
    /\ relFailed = {}
    /\ callsFailed = {}
    /\ snapshot = <<>>

\* variant: the except clause of _find_callers returns a placeholder caller
CallersOnFailureUnknown ==
    <<[id |-> None, name |-> "unknown", file_path |-> None,
       relationship |-> "calls", risk |-> "high"]>>

\* lines 79-81: what _find_callers returns when get_code_calls raised
CallersOnFailure == <<>>

\* the outcomes a fetch can have: it returns (TRUE) or raises (FALSE)
Outcomes == IF failures < MaxFailures THEN {TRUE, FALSE} ELSE {TRUE}

\* variant: the except clause ends the loop
AfterExceptAbort(i) == Len(targets) + 1

\* where the for loop of analyze() goes after the except clause has run
AfterExcept(i) == i + 1

\* get_code_relationships returns: analyze() goes on to _find_callers
FetchRelationships ==
    /\ UNCHANGED <<bvars, cvars, qvars>>
    /\ apc = "loop" /\ ti <= Len(targets)
    /\ relationships' = rels[targets[ti]]
    /\ apc' = "find_callers"
    /\ UNCHANGED <<calls, rels, targets, ti, callers, callees, chains, ci, cur,
                   path, impact, failures, relFailed, callsFailed,
                   snapshot>>

\* get_code_relationships raises: the except clause of analyze() prints a
\* warning and the loop moves to the next target
FetchRelationshipsFails ==
    /\ UNCHANGED <<bvars, cvars, qvars>>
    /\ apc = "loop" /\ ti <= Len(targets)
    /\ FALSE \in Outcomes
    /\ failures' = failures + 1
    /\ relFailed' = relFailed \cup {ti}
    /\ ti' = AfterExcept(ti)
    /\ UNCHANGED <<calls, rels, targets, apc, relationships, callers, callees,
                   chains, ci, cur, path, impact, callsFailed,
                   snapshot>>

\* _find_callers for the target (get_code_calls ok, or raising and absorbed
\* as []), then _find_callees, then _build_call_chains starts
FindCallersAndCallees ==
    /\ UNCHANGED <<bvars, cvars, qvars>>
    /\ apc = "find_callers"
    /\ \E ok \in Outcomes :
        /\ callers' = IF ok THEN FindCallers(calls, targets[ti]) ELSE CallersOnFailure
        /\ failures' = IF ok THEN failures ELSE failures + 1
        /\ callsFailed' = IF ok THEN callsFailed ELSE callsFailed \cup {ti}
    /\ snapshot' = calls
    /\ callees' = FindCallees(relationships)
    /\ chains' = <<>>
    /\ ci' = 1
    /\ apc' = "chains"
    /\ UNCHANGED <<calls, rels, targets, ti, relationships, cur, path,
                   impact, relFailed>>

\* the for loop of _build_call_chains calls _traverse_up for the next caller
StartChain ==
    /\ UNCHANGED <<bvars, cvars, qvars>>
    /\ apc = "chains" /\ ci <= Len(ChainStarts(callers))
    /\ cur' = callers[ci].id
    /\ path' = <<callers[ci].name>>
    /\ apc' = "traverse"
    /\ UNCHANGED <<calls, rels, targets, ti, relationships, callers, callees,
                   chains, ci, impact, failures, relFailed, callsFailed,
                   snapshot>>

\* _traverse_up returns path: the chain is appended when it is non-empty
ReturnChain(p) ==
    /\ chains' = IF p # <<>> THEN Append(chains, [path |-> p, depth |-> Len(p)])
                 ELSE chains
    /\ ci' = ci + 1
    /\ apc' = "chains"
    /\ UNCHANGED <<cur, path>>

\* one call of _traverse_up: it returns at the depth limit or when no caller
\* is found (a failing get_code_calls is absorbed as no caller), else recurses
TraverseUp ==
    /\ UNCHANGED <<bvars, cvars, qvars>>
    /\ apc = "traverse"
    /\ IF DepthLimitReached(path)
       THEN ReturnChain(path) /\ UNCHANGED failures
       ELSE \E ok \in Outcomes :
              LET found == IF ok THEN FindCallers(calls, cur) ELSE CallersOnFailure IN
              /\ failures' = IF ok THEN failures ELSE failures + 1
              /\ IF found = <<>> THEN ReturnChain(path)
                 ELSE /\ cur' = found[1].id
                      /\ path' = ExtendPath(path, found[1])
                      /\ UNCHANGED <<chains, ci, apc>>
    /\ UNCHANGED <<calls, rels, targets, ti, relationships, callers, callees,
                   impact, relFailed, callsFailed,
                   snapshot>>

\* variant: a caller already in the list is not added again
ExtendAffectedOnce(affected, found) ==
    LET IsNew(c) == \A k \in 1..Len(affected) : affected[k].id # c.id
    IN affected \o SelectSeq(found, IsNew)

\* line 45: impact["affected_functions"].extend(callers)
ExtendAffected(affected, found) == affected \o found

\* _build_call_chains returns; analyze() extends the report and loops
Accumulate ==
    /\ UNCHANGED <<bvars, cvars, qvars>>
    /\ apc = "chains" /\ ci > Len(ChainStarts(callers))
    /\ impact' = [impact EXCEPT
                    !.affected_functions = ExtendAffected(@, callers),
                    !.call_chains = @ \o chains]
    /\ ti' = ti + 1
    /\ apc' = "loop"
    /\ UNCHANGED <<calls, rels, targets, relationships, callers, callees,
                   chains, ci, cur, path, failures, relFailed,
                   callsFailed,
                   snapshot>>

\* after the loop: _assess_risk, _generate_recommendations, return impact
Finish ==
    /\ UNCHANGED <<bvars, cvars, qvars>>
    /\ apc = "loop" /\ ti > Len(targets)
    /\ impact' = Report(impact)
    /\ apc' = "done"
    /\ UNCHANGED <<calls, rels, targets, ti, relationships, callers, callees,
                   chains, ci, cur, path, failures, relFailed,
                   callsFailed,
                   snapshot>>

NextA ==
    \/ FetchRelationships
    \/ FetchRelationshipsFails
    \/ FindCallersAndCallees
    \/ StartChain
    \/ TraverseUp
    \/ Accumulate
    \/ Finish

SpecAnalyze == InitA /\ [][NextA]_vars

-----------------------------------------------------------------------------
(* analyze() of one target while the upstream service takes a new analysis
   of the repository: every get_code_calls is a request of its own, so the
   edge list can differ from one request to the next *)

\* the edges between known elements
DriftEdges == {MkEdge(s, t, "id") : s \in Ids, t \in Ids}

InitD ==
    /\ IdleB /\ IdleC /\ IdleQ
    /\ calls \in SeqsUpTo(DriftEdges, MaxEdges)
    /\ rels = UpstreamRels
    /\ \E t \in Ids : targets = <<t>>
    /\ apc = "loop"
    /\ ti = 1
    /\ relationships = <<>>
    /\ callers = <<>>
    /\ callees = <<>>
    /\ chains = <<>>
    /\ ci = 1
    /\ cur = None
    /\ path = <<>>
    /\ impact = EmptyImpact
    /\ failures = 0
    /\ relFailed = {}
    /\ callsFailed = {}
    /\ snapshot = <<>>

\* the upstream service replaces its edge list between two requests of
\* _build_call_chains, at most once per target
UpstreamChanges ==
    /\ UNCHANGED <<bvars, cvars, qvars>>
    /\ apc \in {"chains", "traverse"}
    /\ calls = snapshot
    /\ calls' \in SeqsUpTo(DriftEdges, MaxEdges) \ {calls}
    /\ UNCHANGED <<rels, targets, apc, ti, relationships, callers, callees,
                   chains, ci, cur, path, impact, failures, relFailed,
                   callsFailed, snapshot>>

NextD ==
    \/ NextA
    \/ UpstreamChanges

SpecDrift == InitD /\ [][NextD]_vars

-----------------------------------------------------------------------------
(* _assess_risk and _generate_recommendations applied to arbitrary reports *)

ChainOfDepth(d) == [path |-> [k \in 1..d |-> "fn_a"], depth |-> d]

\* reports as the loop of analyze() can leave them: n affected functions and,
\* when there are any, at least one chain, each of depth 1..6
RiskInputs ==
    {[EmptyImpact EXCEPT
        !.affected_functions = [i \in 1..n |-> CallerOf(MkEdge(FanCaller(i), "a", "id"))],
        !.call_chains = [i \in 1..Len(ds) |-> ChainOfDepth(ds[i])]] :
     n \in 0..MaxAffected, ds \in SeqsUpTo(1..6, MaxChains)}

InitR ==
    /\ IdleB /\ IdleC /\ IdleQ
    /\ impact \in {r \in RiskInputs :
                     (r.affected_functions = <<>>) <=> (r.call_chains = <<>>)}
    /\ apc = "report"
    /\ calls = <<>> /\ rels = UpstreamRels /\ targets = <<>> /\ ti = 1
    /\ relationships = <<>> /\ callers = <<>> /\ callees = <<>>
    /\ chains = <<>> /\ ci = 1 /\ cur = None /\ path = <<>>
    /\ failures = 0 /\ relFailed = {} /\ callsFailed = {}
    /\ snapshot = <<>>

\* lines 50-56 of analyze() applied to the report
ApplyReport ==
    /\ UNCHANGED <<bvars, cvars, qvars>>
    /\ apc = "report"
    /\ impact' = Report(impact)
    /\ apc' = "done"
    /\ UNCHANGED <<calls, rels, targets, ti, relationships, callers, callees,
                   chains, ci, cur, path, failures, relFailed, callsFailed,
                   snapshot>>

NextR == ApplyReport

SpecRisk == InitR /\ [][NextR]_vars

\* analyze() under the scheduler's guarantee that a runnable coroutine runs
LiveAnalyze == SpecAnalyze /\ WF_vars(NextA)

-----------------------------------------------------------------------------
(* Properties of RefactoringAnalyzer *)

\* every chain built so far, of the current target or already in the report
AllChains == impact.call_chains \o chains

\* the callee id an edge carries
CalleeId(e) == Or(e.target_id, e.target_element_id)

\* number of call edges into element x
InDegree(x) == Cardinality({j \in 1..Len(calls) : CalleeId(calls[j]) = x})

\* targets whose fetches all returned
OkTargets == (1..Len(targets)) \ (relFailed \cup callsFailed)

RECURSIVE SumOver(_, _)
SumOver(S, f) ==
    IF S = {} THEN 0
    ELSE LET x == CHOOSE y \in S : TRUE IN f[x] + SumOver(S \ {x}, f)

\* C1: every call chain has at most 5 entries (depth <= 5), on every graph;
\* stated here for the graphs whose edges all carry their caller id
C1_ChainDepthAtMostFive ==
    (\A j \in 1..Len(calls) : calls[j].source_id # None) =>
        \A i \in 1..Len(AllChains) :
            AllChains[i].depth <= 5 /\ Len(AllChains[i].path) <= 5

\* C2: the upward traversal terminates on every finite edge set: no path
\* grows past the hard ceiling and analyze() eventually returns
C2_TraversalTerminates ==
    [](Len(path) <= 6) /\ <>(apc = "done")

C2_Witness ==
    /\ apc = "done"
    /\ \E i \in 1..Len(impact.call_chains) :
          impact.call_chains[i].depth > Cardinality(Ids) + 1

\* C3: a target whose relationship fetch failed adds nothing, every other
\* target is processed and contributes its callers and one chain per caller
\* (up to 5), and analyze() returns with all targets visited
C3_PerTargetIsolation ==
    apc = "done" =>
        /\ ti = Len(targets) + 1
        /\ Len(impact.affected_functions) =
              SumOver(OkTargets, [i \in OkTargets |-> InDegree(targets[i])])
        /\ Len(impact.call_chains) =
              SumOver(OkTargets, [i \in OkTargets |-> Min(5, InDegree(targets[i]))])
        /\ \A i \in 1..Len(targets) :
              (i \notin relFailed /\ i \notin callsFailed) =>
                 \A j \in 1..Len(calls) :
                    CalleeId(calls[j]) = targets[i] =>
                       \E k \in 1..Len(impact.affected_functions) :
                          impact.affected_functions[k].name = calls[j].source_name

C3_Witness ==
    /\ apc = "done"
    /\ Len(targets) = 2
    /\ relFailed = {1}
    /\ InDegree(targets[1]) > 0
    /\ impact.affected_functions # <<>>

\* the maximum chain depth of a report, 0 when it has no chains
MaxDepth(imp) ==
    IF imp.call_chains = <<>> THEN 0
    ELSE CHOOSE d \in {imp.call_chains[i].depth : i \in 1..Len(imp.call_chains)} :
            \A i \in 1..Len(imp.call_chains) : imp.call_chains[i].depth <= d

\* C4: the risk level is 'high' iff N > 10 or D > 4, otherwise 'medium' iff
\* N > 5 or D > 2, otherwise 'low'
C4_RiskLevel ==
    apc = "done" =>
        LET N == Len(impact.affected_functions)
            D == MaxDepth(impact)
        IN /\ impact.risk_level \in {"low", "medium", "high"}
           /\ (impact.risk_level = "high") <=> (N > 10 \/ D > 4)
           /\ (impact.risk_level = "medium") <=>
                 (~(N > 10 \/ D > 4) /\ (N > 5 \/ D > 2))

C4_Witness ==
    /\ apc = "done"
    /\ Len(impact.affected_functions) = 11
    /\ MaxDepth(impact) = 1
    /\ impact.risk_level = "high"

\* C5: the recommendations are, in order, the update item iff N > 0, the
\* wrapper and deprecation items iff the risk is high, then the two
\* constant closing items
C5_Recommendations ==
    apc = "done" =>
        LET N == Len(impact.affected_functions)
            r == impact.recommendations
            high == impact.risk_level = "high"
            k == (IF N > 0 THEN 1 ELSE 0) + (IF high THEN 2 ELSE 0)
        IN /\ Len(r) = k + 2
           /\ N > 0 => r[1] = RecUpdate(N)
           /\ high => r[k - 1] = RecWrapper /\ r[k] = RecDeprecate
           /\ r[k + 1] = RecTests
           /\ r[k + 2] = RecDocs

C5_Witness ==
    /\ apc = "done"
    /\ impact.risk_level = "medium"
    /\ Len(impact.recommendations) = 3

\* C6: when no target has a caller in the edge set the report is empty,
\* low risk, with exactly the two closing recommendations
C6_NoCallers ==
    (apc = "done" /\ \A i \in 1..Len(targets) : InDegree(targets[i]) = 0) =>
        /\ impact.affected_functions = <<>>
        /\ impact.call_chains = <<>>
        /\ impact.risk_level = "low"
        /\ impact.recommendations = <<RecTests, RecDocs>>

C6_Witness ==
    /\ apc = "done"
    /\ targets # <<>>
    /\ calls # <<>>
    /\ \A i \in 1..Len(targets) : InDegree(targets[i]) = 0
    /\ relFailed = {} /\ callsFailed = {}

\* C7: when every fetch returns, affected_functions holds one entry per call
\* edge into a target, tagged 'calls' / 'high', and no callee of a target
C7_AffectedAreCallers ==
    (apc = "done" /\ relFailed = {} /\ callsFailed = {}) =>
        LET af == impact.affected_functions
            pairs == {<<i, j>> \in (1..Len(targets)) \X (1..Len(calls)) :
                         CalleeId(calls[j]) = targets[i]}
        IN /\ Len(af) = Cardinality(pairs)
           /\ \A k \in 1..Len(af) :
                 /\ af[k].relationship = "calls"
                 /\ af[k].risk = "high"
                 /\ \E p \in pairs :
                       af[k].id = Or(calls[p[2]].source_id,
                                     calls[p[2]].source_element_id)
           /\ \A p \in pairs :
                 \E k \in 1..Len(af) :
                    af[k].id = Or(calls[p[2]].source_id,
                                  calls[p[2]].source_element_id)

C7_Witness ==
    /\ apc = "done" /\ relFailed = {} /\ callsFailed = {}
    /\ \E i \in 1..Len(targets) : FindCallees(rels[targets[i]]) # <<>>
    /\ impact.affected_functions # <<>>

-----------------------------------------------------------------------------
(* Properties of ContextBuilder *)

\* C8: build() returns a bundle and never raises, for every intent of the
\* enumeration and every combination of fetch failures
C8_BuildNeverRaises == bpc # "raised"

\* C9: when get_repository fails the bundle carries the placeholder
\* repository and the selected strategy still runs, giving the sources it
\* gives with the metadata fetched
C9_RepositoryFallback ==
    (bpc \in {"done", "raised"} /\ Raises(outage, "repository")) =>
        /\ bpc = "done"
        /\ context.repository = [id |-> RepositoryId, name |-> "Unknown"]
        /\ context.sources =
              RunStrategy(SelectStrategy(intent.intent, 1), Upstream,
                          outage \ {"repository"}, intent, max_results).sources

\* the sources of one domain, in order
SourcesOfType(srcs, type) ==
    LET IsType(x) == x.type = type IN SelectSeq(srcs, IsType)

\* the endpoint behind each domain of the general strategy
DomainEndpoint ==
    [code_element |-> "code_elements", service |-> "services",
     dependency |-> "dependencies", test |-> "tests",
     documentation |-> "documentation"]

\* what the general strategy returns when every fetch succeeds
HealthyGeneral ==
    BuildGeneralContext(Upstream, {}, intent.topics, intent.entities, max_results)

DomainRank ==
    [code_element |-> 1, service |-> 2, dependency |-> 3, test |-> 4,
     documentation |-> 5]

\* C11: the general strategy emits at most max_results // 3 code elements,
\* max_results // 3 services, max_results // 3 dependencies,
\* max_results // 5 tests and max_results // 5 documentation items, the
\* domains in that order
C11_GeneralShares ==
    bpc = "returned" =>
        /\ \A d \in {"code_element", "service", "dependency"} :
              Len(SourcesOfType(result.sources, d)) <= max_results \div 3
        /\ \A d \in {"test", "documentation"} :
              Len(SourcesOfType(result.sources, d)) <= max_results \div 5
        /\ \A i \in 1..Len(result.sources) :
              /\ result.sources[i].type \in DOMAIN DomainRank
              /\ \A j \in 1..Len(result.sources) :
                    i < j => DomainRank[result.sources[i].type]
                                <= DomainRank[result.sources[j].type]

C11_Witness ==
    /\ bpc = "returned"
    /\ max_results = 9
    /\ Len(Upstream.code_elements) > 3
    /\ Len(Upstream.tests) > 1
    /\ Len(SourcesOfType(result.sources, "code_element")) = 3
    /\ Len(SourcesOfType(result.sources, "service")) = 3
    /\ Len(SourcesOfType(result.sources, "dependency")) = 3
    /\ Len(SourcesOfType(result.sources, "test")) = 1
    /\ Len(SourcesOfType(result.sources, "documentation")) = 1

SourceTexts(src) ==
    CASE src.type = "service" -> {src.name, src.provider}
      [] src.type = "documentation" -> {src.file_name, src.title, src.file_path}
      [] src.type = "dependency" -> {src.name}
      [] OTHER -> {src.name, src.file_path}

\* some topic or entity occurs, whatever the case, in a string of the source
SourceMatches(src, topics, entities) ==
    \E t \in SourceTexts(src) :
        \/ \E k \in 1..Len(topics) : Contains(Lower(topics[k]), Lower(t))
        \/ \E k \in 1..Len(entities) : Contains(Lower(entities[k]), Lower(t))

\* C13: when the intent carries topics or entities, every source the general
\* strategy emits, services and dependencies included, matches one of them
C13_GeneralFiltering ==
    (bpc = "returned" /\ (intent.topics # <<>> \/ intent.entities # <<>>)) =>
        \A i \in 1..Len(result.sources) :
            SourceMatches(result.sources[i], intent.topics, intent.entities)

\* the markers of vendored or generated directories
VendorMarkers == {"venv/", "node_modules/", "__pycache__/", "site-packages/"}

\* the path, whatever its case, runs through a vendored directory
IsVendorPath(file_path) ==
    \E marker \in VendorMarkers : Contains(marker, Lower(file_path))

\* C14: the function strategy never emits a code element whose path,
\* compared case-insensitively, contains venv/, node_modules/, __pycache__/
\* or site-packages/
C14_NoVendorFunctions ==
    (bpc \in {"graph", "done"} /\ intent.intent = "find_functions") =>
        \A i \in 1..Len(context.sources) :
            ~IsVendorPath(context.sources[i].file_path)

C14_Witness ==
    /\ bpc = "done"
    /\ intent.intent = "find_functions"
    /\ intent.topics = <<"auth">>
    /\ context.sources # <<>>
    /\ \E k \in 1..Len(Upstream.code_elements) :
          /\ Upstream.code_elements[k].element_type = "function"
          /\ Contains("auth", Lower(Upstream.code_elements[k].name))
          /\ IsVendorPath(Upstream.code_elements[k].file_path)
          /\ ~Contains("site-packages/", Upstream.code_elements[k].file_path)
          /\ \A i \in 1..Len(context.sources) :
                context.sources[i].id # Upstream.code_elements[k].id

\* the functions of the upstream list the function strategy keeps, in
\* upstream order
MatchingFunctions ==
    LET NotCommon(e) == Lower(e) \notin FunctionCommonWords
        filtered_entities == SelectSeq(intent.entities, NotCommon)
        Keep(element) == FunctionMatches(element, intent.topics, filtered_entities)
    IN SelectSeq(Upstream.code_elements, Keep)

\* C15: the function strategy emits the first min(max_results, matches)
\* matching functions in upstream order, each with a relationships list: the
\* fetched one, or [] for the items whose relationship fetch failed
C15_FunctionSlice ==
    (bpc \in {"graph", "done"} /\ intent.intent = "find_functions"
     /\ ~Raises(outage, "code_elements")) =>
        /\ Len(context.sources) = Min(max_results, Len(MatchingFunctions))
        /\ \A i \in 1..Len(context.sources) :
              /\ context.sources[i].id = MatchingFunctions[i].id
              /\ context.sources[i].relationships =
                    IF Raises(outage, RelEndpoint(context.sources[i].id)) THEN <<>>
                    ELSE Upstream.relationships[context.sources[i].id]

C15_Witness ==
    /\ bpc = "done"
    /\ intent.intent = "find_functions"
    /\ Len(MatchingFunctions) > max_results
    /\ Len(context.sources) = 2
    /\ Raises(outage, RelEndpoint(context.sources[1].id))
    /\ Upstream.relationships[context.sources[1].id] # <<>>
    /\ context.sources[1].relationships = <<>>
    /\ context.sources[2].relationships # <<>>

\* the set of the entries of a list
Elements(list) == {list[k] : k \in 1..Len(list)}

\* C16: the bundle has a graph iff include_graph is true; when get_graph
\* fails the graph is the empty graph and repository, sources and related are
\* what they are with the graph fetched
C16_GraphOnRequest ==
    bpc = "done" =>
        /\ (context.graph # None) <=> include_graph
        /\ (include_graph /\ ~Raises(outage, "graph")) => context.graph = Upstream.graph
        /\ (include_graph /\ Raises(outage, "graph")) =>
              /\ context.graph = EmptyGraph
              /\ context.repository =
                    IF Raises(outage, "repository")
                    THEN [id |-> RepositoryId, name |-> "Unknown"]
                    ELSE Upstream.repository
              /\ LET r == RunStrategy(SelectStrategy(intent.intent, 1), Upstream,
                                      outage \ {"graph"}, intent, max_results)
                 IN /\ context.sources = r.sources
                    /\ context.related.keys = r.related.keys
                    /\ Elements(context.related.services) = r.related.services
                    /\ Elements(context.related.dependencies) = r.related.dependencies

C16_Witness ==
    /\ bpc = "done"
    /\ include_graph
    /\ Raises(outage, "graph")
    /\ context.graph = EmptyGraph
    /\ context.sources # <<>>
    /\ context.repository = Upstream.repository

\* the target names of one type among the relationships of the sources
TargetNames(srcs, type) ==
    {n \in {"firebase", "requests", "bcrypt", "dbQuery"} :
        \E i \in 1..Len(srcs) :
            \E k \in 1..Len(srcs[i].relationships) :
                /\ srcs[i].relationships[k].target_type = type
                /\ srcs[i].relationships[k].target_name = n}

\* no entry occurs twice in the list
NoRepeat(list) == \A i, j \in 1..Len(list) : i # j => list[i] # list[j]

\* C17: the related entities of the function strategy are exactly the
\* target names of type service and of type dependency found in the
\* relationships of the emitted sources, each name once
C17_RelatedEntities ==
    (bpc \in {"graph", "done"} /\ intent.intent = "find_functions"
     /\ ~Raises(outage, "code_elements")) =>
        /\ context.related.keys = {"services", "dependencies"}
        /\ NoRepeat(context.related.services)
        /\ NoRepeat(context.related.dependencies)
        /\ Elements(context.related.services) = TargetNames(context.sources, "service")
        /\ Elements(context.related.dependencies)
              = TargetNames(context.sources, "dependency")

C17_Witness ==
    /\ bpc = "done"
    /\ intent.intent = "find_functions"
    /\ Cardinality({i \in 1..Len(context.sources) :
            \E k \in 1..Len(context.sources[i].relationships) :
                context.sources[i].relationships[k].target_name = "firebase"}) = 2
    /\ context.related.services = <<"firebase">>
    /\ Len(context.related.dependencies) = 2
    /\ TargetNames(context.sources, "code_element") = {"dbQuery"}

MatchingEntries ==
    {i \in 1..Len(IntentPatterns) : EntryMatches(IntentPatterns[i], Lower(query))}

\* C19: parse returns the intent of the earliest declared entry with a
\* matching pattern, compared case-insensitively: a query matching a
\* FIND_FUNCTIONS pattern and "remove" is FIND_FUNCTIONS
C19_EarliestIntentWins ==
    (ppc = "returned" /\ MatchingEntries # {}) =>
        /\ \E i \in MatchingEntries :
              /\ \A j \in MatchingEntries : i <= j
              /\ parsed.intent = IntentPatterns[i].intent
        /\ (Contains("what functions", Lower(query)) /\ Contains("remove", Lower(query)))
              => parsed.intent = "find_functions"

C19_Witness ==
    /\ ppc = "returned"
    /\ query # Lower(query)
    /\ Contains("what functions", Lower(query))
    /\ Contains("remove", Lower(query))
    /\ Cardinality(MatchingEntries) = 2
    /\ parsed.intent = "find_functions"

\* C20: parse returns intent, entities and topics for every query and never
\* raises; the intent is GENERAL when no pattern matches and topics is empty
\* when no keyword occurs: "hello there" gives GENERAL and no topics
C20_ParseTotal ==
    /\ ppc \in {"parse", "returned"}
    /\ ppc = "returned" =>
          /\ {"intent", "entities", "topics"} \subseteq DOMAIN parsed
          /\ parsed.intent \in QueryIntent
          /\ MatchingEntries = {} => parsed.intent = "general"
          /\ (\A k \in 1..Len(TopicKeywords) : ~Contains(TopicKeywords[k], Lower(query)))
                => parsed.topics = <<>>
          /\ query = "hello there" => (parsed.intent = "general" /\ parsed.topics = <<>>)

C20_Witness ==
    /\ ppc = "returned"
    /\ query = "hello there"
    /\ parsed.intent = "general"
    /\ parsed.topics = <<>>
    /\ Len(parsed.entities) = 2

\* C21: every double-quoted text of the query is among the entities parse
\* returns, also when it is a word of the stop-word list
C21_QuotedKept ==
    ppc = "returned" =>
        \A quoted \in QuotedFrom(query, 1) : quoted \in Elements(parsed.entities)

\* C22: each entity-type query "what <X> exist for this repo?" is given the
\* intent of its entity type, find_tests and find_documentation included
C22_EntityQueries ==
    ppc = "returned" =>
        \A t \in EntityTests : query = t.query => parsed.intent = t.expected_intent

\* C24: an edge without an id matches nothing: a chain that reaches a caller
\* record without id (its entry is None) ends at that caller
C24_MissingIdEndsChain ==
    \A i \in 1..Len(AllChains) :
        \A k \in 1..Len(AllChains[i].path) :
            AllChains[i].path[k] = None => k = Len(AllChains[i].path)

\* the ids of the records of the edge list, None for a missing one
EdgeIds == Ids \cup {None} \cup {FanCaller(n) : n \in 1..11}

\* the id of the caller record that carries the name
IdOfName(name) ==
    IF \E x \in EdgeIds : "fn_" \o x = name
    THEN CHOOSE x \in EdgeIds : "fn_" \o x = name
    ELSE None

\* the positions of the edges _find_callers matches for the element
CallerEdges(element_id) ==
    {j \in 1..Len(calls) : calls[j].target_id = element_id
                           \/ calls[j].target_element_id = element_id}

\* the path goes from each entry to the first caller, in edge-list order, of
\* that entry's element
FollowsFirstCallers(p) ==
    \A k \in 1..(Len(p) - 1) :
        LET edges == CallerEdges(IdOfName(p[k]))
        IN /\ edges # {}
           /\ p[k + 1] = calls[CHOOSE j \in edges : \A x \in edges : j <= x].source_name

\* C25: once _build_call_chains has run through the callers of a target it
\* has one chain per each of the first 5 callers, in order; a chain's path
\* starts with its caller's name, goes on from first caller to first
\* caller, and its depth is the length of its path
C25_OneChainPerCaller ==
    (apc = "chains" /\ ci > Len(Take(callers, 5))) =>
        /\ Len(chains) = Min(5, Len(callers))
        /\ \A i \in 1..Len(chains) :
              /\ chains[i].path[1] = callers[i].name
              /\ chains[i].depth = Len(chains[i].path)
              /\ FollowsFirstCallers(chains[i].path)

C25_Witness ==
    /\ apc = "chains"
    /\ Len(callers) > 5
    /\ Len(chains) = 5
    /\ \E e \in CallerEdges(targets[ti]) :
          Cardinality(CallerEdges(calls[e].source_id)) >= 2
    /\ \E i \in 1..Len(chains) : chains[i].depth > 2

\* the targets whose relationship fetch returned
FetchedTargets == (1..Len(targets)) \ relFailed

\* the number of caller edges _find_callers found for the i-th target: none
\* when its fetch of the edge list failed
CallersFound(i) == IF i \in callsFailed THEN 0 ELSE InDegree(targets[i])

\* C26: affected_functions has one entry per caller edge of each target whose
\* relationship fetch succeeded, a caller shared by two targets or a target
\* listed twice counting twice, and the risk thresholds apply to that count
C26_NoDeduplication ==
    apc = "done" =>
        LET N == SumOver(FetchedTargets, [i \in FetchedTargets |-> CallersFound(i)])
        IN /\ Len(impact.affected_functions) = N
           /\ N > 10 => impact.risk_level = "high"
           /\ N > 5 => impact.risk_level \in {"medium", "high"}
           /\ (N <= 5 /\ MaxDepth(impact) <= 2) => impact.risk_level = "low"

C26_Witness ==
    /\ apc = "done"
    /\ targets = <<"a", "a">>
    /\ Len(impact.affected_functions) = 12
    /\ Cardinality({impact.affected_functions[k].id :
                       k \in 1..Len(impact.affected_functions)}) = 6
    /\ MaxDepth(impact) = 1
    /\ impact.risk_level = "high"

\* some fetch of the edge list failed at a traversal hop
HopFailed == failures > Cardinality(relFailed) + Cardinality(callsFailed)

\* the chain stops before the depth limit at an element that has callers
Truncated(p) == Len(p) <= 5 /\ CallerEdges(IdOfName(p[Len(p)])) # {}

\* C29: a failing fetch of the call edges is taken as "no callers" and the
\* target is kept: failing for a target's direct callers it gives the target
\* no affected function (the report is empty and low when it fails for every
\* target); failing at a later hop it cuts the chain at that hop and the
\* direct callers stay in affected_functions
C29_CallFetchAbsorbed ==
    /\ (apc \in {"chains", "traverse"} /\ ti \in callsFailed) =>
          (callers = <<>> /\ ti \notin relFailed)
    /\ \A i \in 1..Len(AllChains) :
          /\ FollowsFirstCallers(AllChains[i].path)
          /\ Truncated(AllChains[i].path) => HopFailed
    /\ apc = "done" =>
          /\ ti = Len(targets) + 1
          /\ FetchedTargets \subseteq callsFailed =>
                /\ impact.affected_functions = <<>>
                /\ impact.call_chains = <<>>
                /\ impact.risk_level = "low"
          /\ \A i \in OkTargets : \A j \in CallerEdges(targets[i]) :
                \E k \in 1..Len(impact.affected_functions) :
                    impact.affected_functions[k].id = calls[j].source_id

C29_Witness ==
    /\ apc = "done"
    /\ HopFailed
    /\ callsFailed # {}
    /\ \E i \in 1..Len(impact.call_chains) : Truncated(impact.call_chains[i].path)
    /\ impact.affected_functions # <<>>

\* the strategies that are handed the topics but not the entities
TopicOnlyStrategies == {"service", "dependency", "test", "documentation"}

\* the upstream list each of them reads
DomainList ==
    [service |-> Upstream.services, dependency |-> Upstream.dependencies,
     test |-> Upstream.tests, documentation |-> Upstream.docs]

DomainFetch ==
    [service |-> "services", dependency |-> "dependencies", test |-> "tests",
     documentation |-> "documentation"]

\* the entities that are no stop word
NamedEntities ==
    LET Named(e) == Lower(e) \notin CommonWords IN SelectSeq(intent.entities, Named)

\* C27 as stated: in the service, dependency, test and documentation
\* strategies, with no topics but entities that are no stop words, only the
\* items whose name contains an entity are emitted
C27_EntityFallback ==
    (bpc = "returned" /\ method \in TopicOnlyStrategies
     /\ intent.topics = <<>> /\ NamedEntities # <<>>) =>
        \A i \in 1..Len(result.sources) :
            SourceMatches(result.sources[i], <<>>, NamedEntities)

\* C27 amended: these four strategies never look at the entities: what they
\* return is what they return without entities, and with no topics it is the
\* first max_results items of the upstream list
C27_EntitiesIgnored ==
    (bpc = "returned" /\ method \in TopicOnlyStrategies) =>
        /\ result.sources =
              RunStrategy(method, Upstream, outage,
                          [intent EXCEPT !.entities = <<>>], max_results).sources
        /\ (intent.topics = <<>> /\ ~Raises(outage, DomainFetch[method])) =>
              /\ Len(result.sources) = Min(max_results, Len(DomainList[method]))
              /\ \A i \in 1..Len(result.sources) :
                    result.sources[i].id = DomainList[method][i].id

C27_Witness ==
    /\ bpc = "returned"
    /\ method = "service"
    /\ intent.topics = <<>>
    /\ intent.entities = <<"login">>
    /\ Len(result.sources) = 3
    /\ \E i \in 1..Len(result.sources) :
          ~SourceMatches(result.sources[i], <<>>, intent.entities)

\* the sources of one type a strategy returned
ResultSources(type) ==
    LET OfType(src) == src.type = type IN SelectSeq(result.sources, OfType)

\* some of the words occurs, whatever the case, in the string
AnyIn(words, str) ==
    \E k \in 1..Len(words) : Contains(Lower(words[k]), Lower(str))

\* C28 as stated: in the function and the general strategy, with topics
\* present, no code element is emitted that matches no topic, even if its name
\* contains an entity
C28_TopicsBeforeEntities ==
    (bpc = "returned" /\ method \in {"function", "general"}
     /\ intent.topics # <<>>) =>
        \A i \in 1..Len(ResultSources("code_element")) :
            LET src == ResultSources("code_element")[i]
            IN AnyIn(intent.topics, src.name) \/ AnyIn(intent.topics, src.file_path)

\* C28 amended: topics come before entities in the function strategy only;
\* the general strategy keeps a code element of its slice exactly when its
\* name contains a topic or an entity
C28_TopicsFirstInFunctions ==
    bpc = "returned" =>
        /\ (method = "function" /\ intent.topics # <<>>) =>
              \A i \in 1..Len(result.sources) :
                  \/ AnyIn(intent.topics, result.sources[i].name)
                  \/ AnyIn(intent.topics, result.sources[i].file_path)
        /\ (method = "general" /\ ~GeneralFetchAborts(outage)
            /\ (intent.topics # <<>> \/ intent.entities # <<>>)) =>
              LET slice == Take(Upstream.code_elements, max_results \div 3)
                  Kept(element) == AnyIn(intent.topics, element.name)
                                   \/ AnyIn(intent.entities, element.name)
                  kept == SelectSeq(slice, Kept)
                  emitted == ResultSources("code_element")
              IN /\ Len(emitted) = Len(kept)
                 /\ \A i \in 1..Len(kept) : emitted[i].id = kept[i].id

\* the general strategy emits dbQuery for the entity db although the topic
\* auth is present
C28_Witness ==
    /\ bpc = "returned"
    /\ method = "general"
    /\ intent.topics = <<"auth">>
    /\ intent.entities = <<"db">>
    /\ \E i \in 1..Len(result.sources) :
          /\ result.sources[i].type = "code_element"
          /\ result.sources[i].name = "dbQuery"

\* the position of an item in an upstream list, 0 when it is not there
PositionOf(list, id) ==
    LET at == {k \in 1..Len(list) : list[k].id = id}
    IN IF at = {} THEN 0 ELSE CHOOSE k \in at : TRUE

\* C30: the general strategy emits a code element only from the first
\* max_results // 3 upstream items and a test or a document only from the
\* first max_results // 5, matching or not; the function strategy leaves a
\* matching function out only when max_results matches are already emitted
C30_SliceBeforeFilter ==
    bpc = "returned" =>
        /\ method = "general" =>
              \A i \in 1..Len(result.sources) :
                  LET src == result.sources[i]
                  IN /\ src.type = "code_element" =>
                          PositionOf(Upstream.code_elements, src.id)
                              \in 1..(max_results \div 3)
                     /\ src.type = "test" =>
                          PositionOf(Upstream.tests, src.id)
                              \in 1..(max_results \div 5)
                     /\ src.type = "documentation" =>
                          PositionOf(Upstream.docs, src.id)
                              \in 1..(max_results \div 5)
        /\ (method = "function" /\ ~Raises(outage, "code_elements")) =>
              LET filtered == MatchingFunctions
              IN /\ Len(result.sources) = Min(max_results, Len(filtered))
                 /\ \A i \in 1..Len(result.sources) :
                       result.sources[i].id = filtered[i].id

\* the general strategy with the entity db and max_results 3 looks at the
\* first code element only and emits none, although dbQuery matches
C30_Witness ==
    /\ bpc = "returned"
    /\ method = "general"
    /\ outage = {}
    /\ intent.topics = <<>>
    /\ intent.entities = <<"db">>
    /\ max_results = 3
    /\ ResultSources("code_element") = <<>>
    /\ \E k \in 1..Len(Upstream.code_elements) :
          AnyIn(intent.entities, Upstream.code_elements[k].name)

\* the names of the callers the edge list holds for the element
CallerNamesIn(edges, element_id) ==
    {edges[j].source_name :
        j \in {x \in 1..Len(edges) : IsCallOf(edges[x], element_id)}}

\* the path starts at a caller of the element and goes from caller to
\* caller along edges of the list
IsCallerPath(p, edges, element_id) ==
    /\ p # <<>> => p[1] \in CallerNamesIn(edges, element_id)
    /\ \A k \in 1..(Len(p) - 1) :
          p[k + 1] \in CallerNamesIn(edges, IdOfName(p[k]))

\* C23: every chain built for the current target, and the path under
\* construction, is a path of caller edges of the edge list the target's
\* direct callers were read from, whatever the upstream does meanwhile
C23_SingleSnapshot ==
    apc \in {"chains", "traverse"} =>
        /\ \A i \in 1..Len(chains) :
              IsCallerPath(chains[i].path, snapshot, targets[ti])
        /\ apc = "traverse" => IsCallerPath(path, snapshot, targets[ti])

====
